---- MODULE Spec2Model ----
(***************************************************************************)
(* A model of sitemap_finder.py: process_domains (the thread pool, the     *)
(* futures and the collecting loop) and find_sitemaps_for_domain with the  *)
(* probers it calls, one action per network request.                       *)
(*                                                                         *)
(* Strings that the code takes apart are records of their parts: a domain  *)
(* is [prefix, host], a URL is [scheme, host, path, suffix] where suffix   *)
(* is the text from the last dot of the URL on.  The `timeout' parameter   *)
(* is not state: every request returns a response or raises.               *)
(***************************************************************************)
EXTENDS Integers, Sequences, FiniteSets, TLC

\* ------------------------------------------------------------------ bounds
MaxDomains == 3
MaxConcurrency == 2
\* How many entries of SITEMAP_PATHS the model probes (see Catalog).
CatalogLen == 3

\* ---------------------------------------------------------------- catalog
Path(text, suffix) == [text |-> text, suffix |-> suffix]

SITEMAP_PATHS ==
  << Path("/sitemap.xml", ".xml"),
     Path("/sitemap_index.xml", ".xml"),
     Path("/sitemap-index.xml", ".xml"),
     Path("/sitemapindex.xml", ".xml"),
     Path("/sitemap.php", ".php"),
     Path("/sitemap.txt", ".txt"),
     Path("/sitemap.html", ".html"),
     Path("/sitemap.xml.gz", ".gz"),
     Path("/sitemap.gz", ".gz"),
     Path("/sitemap.xml.zip", ".zip"),
     Path("/sitemap.zip", ".zip"),
     Path("/sitemap_index.xml.gz", ".gz"),
     Path("/sitemap-index.xml.gz", ".gz"),
     Path("/sitemapindex.xml.gz", ".gz"),
     Path("/news-sitemap.xml", ".xml"),
     Path("/news-sitemap.xml.gz", ".gz"),
     Path("/image-sitemap.xml", ".xml"),
     Path("/image-sitemap.xml.gz", ".gz"),
     Path("/video-sitemap.xml", ".xml"),
     Path("/video-sitemap.xml.gz", ".gz"),
     Path("/product-sitemap.xml", ".xml"),
     Path("/product-sitemap.xml.gz", ".gz"),
     Path("/page-sitemap.xml", ".xml"),
     Path("/post-sitemap.xml", ".xml"),
     Path("/category-sitemap.xml", ".xml") >>

\* The entries of SITEMAP_PATHS the model probes: the first CatalogLen
\* indices of SampleOrder, kept in the order of SITEMAP_PATHS.
SampleOrder == << 1, 8, 10, 6, 16, 11, 2 >>

Sampled ==
  { SampleOrder[k] : k \in { j \in 1..Len(SampleOrder) : j <= CatalogLen } }

Catalog ==
  LET idx == SelectSeq([i \in 1..Len(SITEMAP_PATHS) |-> i],
                       LAMBDA i : i \in Sampled)
  IN  [k \in 1..Len(idx) |-> SITEMAP_PATHS[idx[k]]]

\* ------------------------------------------------------------ URL strings
ValueError == "ValueError"
RequestException == "RequestException"
UnicodeEncodeError == "UnicodeEncodeError"
NoException == "none"
None == "None"

Url(scheme, host, path, suffix) ==
  [scheme |-> scheme, host |-> host, path |-> path, suffix |-> suffix]

\* Hosts that urllib.parse cannot split: an unclosed IPv6 bracket.
MalformedHosts == { "[bad" }

\* urljoin(base_url, path) for an absolute path: the base's scheme and host
\* with the path.  It splits the base first, and urlsplit raises ValueError
\* on a malformed host.
urlsplit_raises(base_url) == base_url.host \in MalformedHosts

urljoin(base_url, path) ==
  Url(base_url.scheme, base_url.host, path.text, path.suffix)

RobotsPath == Path("/robots.txt", ".txt")

\* Mutant: the https variant comes first.
normalize_domain_https_first(domain) ==
  LET stripped == IF domain.prefix \in { "http://", "https://" }
                  THEN [domain EXCEPT !.prefix = ""]
                  ELSE domain
  IN  << [scheme |-> "https", host |-> stripped.prefix \o stripped.host],
         [scheme |-> "http", host |-> stripped.prefix \o stripped.host] >>

\* normalize_domain: one protocol prefix is stripped, both are prepended.
normalize_domain(domain) ==
  LET stripped == IF domain.prefix \in { "http://", "https://" }
                  THEN [domain EXCEPT !.prefix = ""]
                  ELSE domain
  IN  << [scheme |-> "http", host |-> stripped.prefix \o stripped.host],
         [scheme |-> "https", host |-> stripped.prefix \o stripped.host] >>

is_compressed_format(url) == url.suffix \in { ".gz", ".zip" }

get_compression_type(url) ==
  IF url.suffix = ".gz" THEN "gzip"
  ELSE IF url.suffix = ".zip" THEN "zip"
  ELSE "none"

\* --------------------------------------------------------------- robots.txt
\* A line of robots.txt is "<field>:<value>"; value is already stripped.
Line(field, value) == [field |-> field, value |-> value]

NoUrl == Url("", "", "", "")

lower(field) ==
  CASE field = "Sitemap" -> "sitemap"
    [] field = "SITEMAP" -> "sitemap"
    [] field = "User-agent" -> "user-agent"
    [] field = "Disallow" -> "disallow"
    [] OTHER -> field

extract_sitemaps_from_robots(robots_content) ==
  { robots_content[k].value :
      k \in { j \in 1..Len(robots_content) :
                /\ lower(robots_content[j].field) = "sitemap"
                /\ robots_content[j].value # NoUrl } }

\* ------------------------------------------------------ compressed payloads
\* A payload is [format, files]: files are the decoded texts it holds (one
\* for gzip, the archive's entries in listing order for zip); a text is a
\* sequence of elements [tag, text].
Elem(tag, text) == [tag |-> tag, text |-> text]

findall_loc(xml_content) ==
  { xml_content[k].text :
      k \in { j \in 1..Len(xml_content) :
                xml_content[j].tag = "loc" /\ xml_content[j].text # "" } }

extract_urls_from_compressed_sitemap(content, compression_type) ==
  IF compression_type = "gzip"
  THEN IF content.format = "gzip"
       THEN findall_loc(content.files[1])
       ELSE {}                       \* gzip.BadGzipFile, caught at line 135
  ELSE IF compression_type = "zip"
  THEN IF content.format = "zip" /\ Len(content.files) > 0
       THEN findall_loc(content.files[1])
       ELSE {}                       \* BadZipFile / IndexError, line 135
  ELSE {}

\* ------------------------------------------------------------------ network
\* What a request can come back with: a response (status, body) or a raised
\* RequestException (timeout, refused connection, DNS or TLS failure).
Response(status, body) == [kind |-> "response", status |-> status, body |-> body]
Raised(body) == [kind |-> RequestException, status |-> 0, body |-> body]

NoPayload == [format |-> "none", files |-> << >>]

SitemapFinderUA == "SitemapFinder/1.0"
DefaultUA == "python-requests"

\* robots.txt bodies the modelled servers hold.
RobotsBodies(host) ==
  { << >>,
    << Line("User-agent", NoUrl),
       Line("Sitemap", Url("http", host, "/sitemap.xml", ".xml")) >>,
    << Line("SITEMAP", Url("https", "cdn." \o host, "/maps/all.xml.gz", ".gz")),
       Line("Sitemap", NoUrl),
       Line("Disallow", Url("", "", "/private", "")) >> }

Payloads ==
  { [format |-> "gzip",
     files |-> << << Elem("loc", "http://x.com/a"), Elem("lastmod", "2024"),
                     Elem("loc", "http://x.com/b") >> >>],
    [format |-> "zip",
     files |-> << << Elem("loc", "http://x.com/a") >>,
                  << Elem("loc", "http://x.com/c") >> >>],
    [format |-> "zip", files |-> << >>] }

\* The responses each modelled host can give.  example.com can answer
\* anything to a probe over http, and over https it times out or has what is
\* asked for, compressed sitemaps excepted; archive.test has no robots.txt and holds the
\* compressed sitemaps of the catalog, which it can serve in any way;
\* unreachable.test never answers; mirror.test declares and serves one gzip
\* sitemap over https, where some of its requests time out; plain.test
\* answers over http only.
RobotsResponses(url) ==
  CASE url.host = "example.com" /\ url.scheme = "http" ->
         { Raised(<< >>), Response(404, << >>) }
         \cup { Response(200, b) : b \in RobotsBodies(url.host) }
    [] url.host = "example.com" /\ url.scheme = "https" ->
         { Raised(<< >>) }
         \cup { Response(200, b) : b \in RobotsBodies(url.host) \ { << >> } }
    [] url.host = "archive.test" -> { Response(404, << >>) }
    [] url.host = "mirror.test" ->
         { Response(200, << Line("sitemap",
                                 Url("https", url.host, "/sitemap.xml.gz", ".gz")) >>) }
    [] url.host = "plain.test" /\ url.scheme = "http" ->
         { Response(200, << Line("Sitemap",
                                 Url("http", url.host, "/map.xml", ".xml")) >>) }
    [] OTHER -> { Raised(<< >>) }

HeadResponses(url) ==
  CASE url.host = "example.com" /\ url.scheme = "http" ->
         { Raised(<< >>), Response(404, << >>), Response(200, << >>) }
    [] url.host = "example.com" /\ url.scheme = "https" ->
         IF is_compressed_format(url)
         THEN { Raised(<< >>) }
         ELSE { Raised(<< >>), Response(200, << >>) }
    [] url.host = "archive.test" ->
         IF is_compressed_format(url)
         THEN { Response(200, << >>) } ELSE { Response(404, << >>) }
    [] url.host = "mirror.test" ->
         IF url.scheme = "https" /\ url.path = "/sitemap.xml.gz"
         THEN { Response(200, << >>), Raised(<< >>) }
         ELSE IF url.scheme = "https" /\ url.path = "/sitemap.xml"
         THEN { Raised(<< >>) }
         ELSE { Response(404, << >>) }
    [] url.host = "plain.test" /\ url.scheme = "http" ->
         { Response(404, << >>), Response(200, << >>) }
    [] OTHER -> { Raised(<< >>) }

GetResponses(url) ==
  CASE url.host = "example.com" ->
         { Raised(NoPayload), Response(200, CHOOSE p \in Payloads :
                                              p.format = "gzip") }
    [] url.host = "archive.test" ->
         { Raised(NoPayload), Response(500, NoPayload) }
         \cup { Response(200, p) : p \in Payloads }
    [] url.host = "mirror.test" ->
         { Raised(NoPayload),
           Response(200, [format |-> "gzip",
                          files |-> << << Elem("loc", "http://x.com/a") >> >>]) }
    [] OTHER -> { Raised(NoPayload) }

\* ------------------------------------------------------------------ inputs
Domain(prefix, host) == [prefix |-> prefix, host |-> host]

\* Domains of a batch.
FleetDomains == { Domain("", "mirror.test"), Domain("", "[bad") }

\* Domains of a single investigation.
InvestigatedDomains ==
  FleetDomains
  \cup { Domain("https://", "mirror.test"), Domain("", "unreachable.test"),
         Domain("", "plain.test"), Domain("http://", "example.com"),
         Domain("http://", "archive.test") }

SeqsUpTo(S, n) == UNION { [1..k -> S] : k \in 0..n }

\* ------------------------------------------------------------------- state
VARIABLES
  domains,        \* process_domains' argument: the list of domain strings
  concurrency,    \* process_domains' argument: max_workers
  stdout_utf8,    \* whether sys.stdout can encode the messages' emoji
  mainpc,         \* where the thread running process_domains is
  submitted,      \* how many executor.submit calls line 283 has made
  queue,          \* the executor's work queue: futures not yet started
  worker,         \* worker thread -> the future it runs, 0 when idle
  task,           \* future -> the frame of its find_sitemaps_for_domain call
  done_order,     \* futures in the order they finished
  snapshot,       \* futures as_completed found finished when it was called
  yielded,        \* futures as_completed has yielded
  results,        \* process_domains' results list
  ghost           \* history kept for the properties, read by no action

vars ==
  << domains, concurrency, stdout_utf8, mainpc, submitted, queue, worker,
     task, done_order, snapshot, yielded, results, ghost >>

Futures == 1..Len(domains)
Workers == 1..concurrency

\* A Domain Result as find_sitemaps_for_domain builds it (lines 212-218).
Result(domain, sitemaps, nested_urls, status, error) ==
  [domain |-> domain, sitemaps |-> sitemaps, nested_urls |-> nested_urls,
   status |-> status, error |-> error]

\* The frame of a call that has not started.
NewTask(domain) ==
  [domain |-> domain, pc |-> "new", v |-> 1, i |-> 1,
   all_sitemap_urls |-> {}, all_compressed_sitemaps |-> {},
   sitemap_urls |-> {}, compressed_sitemaps |-> {},
   to_fetch |-> {}, all_urls |-> {},
   exc |-> NoException,
   result |-> Result(domain, {}, {}, "unset", None),
   raised |-> NoException]

NewGhost ==
  [worker |-> 0, reqs |-> << >>, robots_ret |-> {}, common_ret |-> {},
   robots_declared |-> {}, head_ok |-> {}, get_ok |-> {}, answered |-> FALSE,
   probed |-> << >>, hits |-> {}, calls |-> << >>, net_raised |-> {},
   extracted |-> {}, position |-> 0]

Request(method, url, ua, w) ==
  [method |-> method, url |-> url, ua |-> ua, worker |-> w]

\* print(...) raises UnicodeEncodeError when the stream cannot encode the
\* text; sys.stderr escapes what it cannot encode and never raises.
PrintRaises(stream, has_emoji) ==
  stream = "stdout" /\ has_emoji /\ ~stdout_utf8

\* -------------------------------------------------- process_domains: submit
\* Line 283, one iteration: executor.submit queues a future for the domain.
Submit ==
  /\ mainpc = "submit"
  /\ submitted < Len(domains)
  /\ submitted' = submitted + 1
  /\ task' = [task EXCEPT ![submitted + 1].pc = "pending"]
  /\ queue' = Append(queue, submitted + 1)
  /\ UNCHANGED << domains, concurrency, stdout_utf8, mainpc, worker,
                  done_order, snapshot, yielded, results, ghost >>

\* Mutant: a thread runs one future and exits; none is started in its place.
StartTask_oneshot(w) ==
  /\ worker[w] = 0
  /\ \A t \in Futures : ghost[t].worker # w
  /\ queue # << >>
  /\ worker' = [worker EXCEPT ![w] = Head(queue)]
  /\ queue' = Tail(queue)
  /\ task' = [task EXCEPT ![Head(queue)].pc = "begin"]
  /\ ghost' = [ghost EXCEPT ![Head(queue)].worker = w]
  /\ UNCHANGED << domains, concurrency, stdout_utf8, mainpc, submitted,
                  done_order, snapshot, yielded, results >>

\* Mutant: a queued future is started whether or not a thread is idle.
StartTask_unbounded(w) ==
  /\ queue # << >>
  /\ worker' = [worker EXCEPT ![w] = Head(queue)]
  /\ queue' = Tail(queue)
  /\ task' = [task EXCEPT ![Head(queue)].pc = "begin"]
  /\ ghost' = [ghost EXCEPT ![Head(queue)].worker = w]
  /\ UNCHANGED << domains, concurrency, stdout_utf8, mainpc, submitted,
                  done_order, snapshot, yielded, results >>

\* An idle worker thread of the pool takes the oldest queued future.
StartTask(w) ==
  /\ worker[w] = 0
  /\ queue # << >>
  /\ worker' = [worker EXCEPT ![w] = Head(queue)]
  /\ queue' = Tail(queue)
  /\ task' = [task EXCEPT ![Head(queue)].pc = "begin"]
  /\ ghost' = [ghost EXCEPT ![Head(queue)].worker = w]
  /\ UNCHANGED << domains, concurrency, stdout_utf8, mainpc, submitted,
                  done_order, snapshot, yielded, results >>

\* ------------------------------------------- find_sitemaps_for_domain: steps
\* Mutant: assignment in place of set.update.
update_overwrite(s, new) == new

\* set.update
update(s, new) == s \cup new

\* Mutant: the error is the name of the exception.
error_msg_raw(e) == e

\* Line 266 (and the literal of line 302).
error_msg(e) ==
  IF e = RequestException THEN "Connection failed" ELSE "Processing error"

\* Mutant: extraction is run on every sitemap URL found.
after_loop_fetch_all(f) ==
  IF f.all_sitemap_urls # {}
  THEN [f EXCEPT !.pc = "fetch", !.to_fetch = f.all_sitemap_urls,
                 !.all_urls = {}]
  ELSE [f EXCEPT !.pc = "return"]

\* Line 257 on: after the protocol loop, extraction if anything is compressed.
after_loop(f) ==
  IF f.all_compressed_sitemaps # {}
  THEN [f EXCEPT !.pc = "fetch", !.to_fetch = f.all_compressed_sitemaps,
                 !.all_urls = {}]
  ELSE [f EXCEPT !.pc = "return"]

\* The for statement of line 228 taking its next item.
next_variant(f) ==
  IF f.v < Len(normalize_domain(f.domain))
  THEN [f EXCEPT !.v = @ + 1, !.pc = "robots"]
  ELSE after_loop(f)

\* An exception leaving the body of the protocol loop: line 250 catches a
\* RequestException and continues, anything else reaches line 265.
loop_body_raises(f, e) ==
  IF e = RequestException
  THEN next_variant(f)
  ELSE [f EXCEPT !.exc = e, !.pc = "return"]

\* Mutant: check_robots_txt without its except clause (line 148).
check_robots_txt_uncaught(base_url, resp) ==
  IF urlsplit_raises(base_url)
  THEN [raised |-> ValueError, sitemap_urls |-> {}]
  ELSE IF resp.kind = RequestException
  THEN [raised |-> RequestException, sitemap_urls |-> {}]
  ELSE IF resp.status = 200
  THEN [raised |-> NoException,
        sitemap_urls |-> extract_sitemaps_from_robots(resp.body)]
  ELSE [raised |-> NoException, sitemap_urls |-> {}]

\* check_robots_txt, given what the GET came back with.
check_robots_txt(base_url, resp) ==
  IF urlsplit_raises(base_url)
  THEN [raised |-> ValueError, sitemap_urls |-> {}]
  ELSE IF resp.kind = RequestException
  THEN [raised |-> NoException, sitemap_urls |-> {}]
  ELSE IF resp.status = 200
  THEN [raised |-> NoException,
        sitemap_urls |-> extract_sitemaps_from_robots(resp.body)]
  ELSE [raised |-> NoException, sitemap_urls |-> {}]

\* Lines 235-238 and the entry into check_common_locations (lines 154-155).
after_robots(f, r) ==
  IF r.raised # NoException
  THEN loop_body_raises(f, r.raised)
  ELSE [f EXCEPT !.all_sitemap_urls = update(@, r.sitemap_urls),
                 !.pc = "head", !.i = 1,
                 !.sitemap_urls = {}, !.compressed_sitemaps = {}]

\* check_common_locations returning (line 169) into lines 242-254.
after_common(f) ==
  next_variant(
    [f EXCEPT !.all_sitemap_urls = update(@, f.sitemap_urls),
              !.all_compressed_sitemaps = update(@, f.compressed_sitemaps)])

\* Mutant: the status of the response is not looked at.
check_common_locations_step_any_status(f, base_url, resp) ==
  LET sitemap_url == urljoin(base_url, Catalog[f.i])
      hit == resp.kind = "response"
      g == IF hit
           THEN [f EXCEPT
                   !.sitemap_urls = @ \cup { sitemap_url },
                   !.compressed_sitemaps =
                     IF is_compressed_format(sitemap_url)
                     THEN @ \cup { sitemap_url } ELSE @]
           ELSE f
  IN  IF urlsplit_raises(base_url)
      THEN loop_body_raises(f, ValueError)
      ELSE IF g.i < Len(Catalog)
      THEN [g EXCEPT !.i = @ + 1]
      ELSE after_common(g)

\* Mutant: a RequestException ends the loop (break in place of continue).
check_common_locations_step_break(f, base_url, resp) ==
  LET sitemap_url == urljoin(base_url, Catalog[f.i])
      hit == resp.kind = "response" /\ resp.status = 200
      g == IF hit
           THEN [f EXCEPT
                   !.sitemap_urls = @ \cup { sitemap_url },
                   !.compressed_sitemaps =
                     IF is_compressed_format(sitemap_url)
                     THEN @ \cup { sitemap_url } ELSE @]
           ELSE f
  IN  IF urlsplit_raises(base_url)
      THEN loop_body_raises(f, ValueError)
      ELSE IF resp.kind = RequestException
      THEN after_common(g)
      ELSE IF g.i < Len(Catalog)
      THEN [g EXCEPT !.i = @ + 1]
      ELSE after_common(g)

\* Mutant: check_common_locations without its except clause (line 166).
check_common_locations_step_uncaught(f, base_url, resp) ==
  LET sitemap_url == urljoin(base_url, Catalog[f.i])
      hit == resp.kind = "response" /\ resp.status = 200
      g == IF hit
           THEN [f EXCEPT
                   !.sitemap_urls = @ \cup { sitemap_url },
                   !.compressed_sitemaps =
                     IF is_compressed_format(sitemap_url)
                     THEN @ \cup { sitemap_url } ELSE @]
           ELSE f
  IN  IF urlsplit_raises(base_url)
      THEN loop_body_raises(f, ValueError)
      ELSE IF resp.kind = RequestException
      THEN loop_body_raises(f, RequestException)
      ELSE IF g.i < Len(Catalog)
      THEN [g EXCEPT !.i = @ + 1]
      ELSE after_common(g)

\* One iteration of the loop of check_common_locations (lines 157-167),
\* given what the HEAD came back with, and the loop's advance.
check_common_locations_step(f, base_url, resp) ==
  LET sitemap_url == urljoin(base_url, Catalog[f.i])
      hit == resp.kind = "response" /\ resp.status = 200
      g == IF hit
           THEN [f EXCEPT
                   !.sitemap_urls = @ \cup { sitemap_url },
                   !.compressed_sitemaps =
                     IF is_compressed_format(sitemap_url)
                     THEN @ \cup { sitemap_url } ELSE @]
           ELSE f
  IN  IF urlsplit_raises(base_url)
      THEN loop_body_raises(f, ValueError)
      ELSE IF g.i < Len(Catalog)
      THEN [g EXCEPT !.i = @ + 1]
      ELSE after_common(g)

\* Mutant: a failed GET ends the loop of fetch_compressed_sitemaps.
fetch_compressed_sitemaps_step_abort(f, url, resp) ==
  LET compression_type == get_compression_type(url)
      urls == IF resp.kind = "response" /\ resp.status = 200
              THEN extract_urls_from_compressed_sitemap(resp.body,
                                                        compression_type)
              ELSE {}
      g == [f EXCEPT !.all_urls = update(@, urls),
                     !.to_fetch = IF resp.kind = RequestException
                                  THEN {} ELSE @ \ { url }]
  IN  IF g.to_fetch = {}
      THEN [g EXCEPT !.result.nested_urls = g.all_urls, !.pc = "return"]
      ELSE g

\* One iteration of the loop of fetch_compressed_sitemaps (lines 187-202),
\* given what the GET came back with; after the last one, lines 208 and 260.
fetch_compressed_sitemaps_step(f, url, resp) ==
  LET compression_type == get_compression_type(url)
      urls == IF resp.kind = "response" /\ resp.status = 200
              THEN extract_urls_from_compressed_sitemap(resp.body,
                                                        compression_type)
              ELSE {}
      g == [f EXCEPT !.all_urls = update(@, urls), !.to_fetch = @ \ { url }]
  IN  IF g.to_fetch = {}
      THEN [g EXCEPT !.result.nested_urls = g.all_urls, !.pc = "return"]
      ELSE g

\* Mutant: a domain with no sitemap found is reported as an error.
finish_empty_is_error(f) ==
  IF f.exc = NoException /\ f.all_sitemap_urls # {}
  THEN [f EXCEPT !.result.sitemaps = f.all_sitemap_urls, !.pc = "done"]
  ELSE [f EXCEPT !.result.status = "error",
                 !.result.error = error_msg(f.exc), !.pc = "done"]

\* Lines 263-271: the result is completed and returned.
finish(f) ==
  IF f.exc = NoException
  THEN [f EXCEPT !.result.sitemaps = f.all_sitemap_urls, !.pc = "done"]
  ELSE [f EXCEPT !.result.status = "error",
                 !.result.error = error_msg(f.exc), !.pc = "done"]

\* The headers argument of the three request sites (lines 145, 160, 190).
robots_user_agent == SitemapFinderUA
head_user_agent == SitemapFinderUA
fetch_user_agent == DefaultUA

\* ------------------------------------------ find_sitemaps_for_domain: actions
Frame(w) == task[worker[w]]
Base(w) == normalize_domain(Frame(w).domain)[Frame(w).v]

\* The future finishes: its waiters are told and the worker is idle again.
FutureDone(w) ==
  /\ done_order' = Append(done_order, worker[w])
  /\ worker' = [worker EXCEPT ![w] = 0]

\* Lines 212-226: the result is initialised and the banner of line 220 is
\* printed, outside the try: if it raises, the exception leaves the task.
Begin(w) ==
  /\ worker[w] # 0
  /\ Frame(w).pc = "begin"
  /\ IF PrintRaises("stdout", TRUE)
     THEN /\ task' = [task EXCEPT ![worker[w]].raised = UnicodeEncodeError,
                                  ![worker[w]].pc = "done"]
          /\ FutureDone(w)
     ELSE /\ task' = [task EXCEPT ![worker[w]].result.status = "success",
                                  ![worker[w]].pc = "robots",
                                  ![worker[w]].v = 1]
          /\ UNCHANGED << worker, done_order >>
  /\ UNCHANGED << domains, concurrency, stdout_utf8, mainpc, submitted, queue,
                  snapshot, yielded, results, ghost >>

NoResponse == Raised(<< >>)

\* Lines 232-238: the GET of robots.txt for the current protocol variant.
RobotsStep(w) ==
  /\ worker[w] # 0
  /\ Frame(w).pc = "robots"
  /\ LET t == worker[w]
         url == urljoin(Base(w), RobotsPath)
         sent == ~urlsplit_raises(Base(w))
     IN  \E resp \in IF sent THEN RobotsResponses(url) ELSE { NoResponse } :
           /\ task' = [task EXCEPT
                         ![t] = after_robots(@, check_robots_txt(Base(w), resp))]
           /\ ghost' = [ghost EXCEPT ![t] =
                 IF ~sent THEN @
                 ELSE [@ EXCEPT
                   !.reqs = Append(@, Request("GET", url, robots_user_agent, w)),
                   !.answered = @ \/ resp.kind = "response",
                   !.robots_declared =
                     IF resp.kind = "response" /\ resp.status = 200
                     THEN @ \cup extract_sitemaps_from_robots(resp.body)
                     ELSE @,
                   !.robots_ret =
                     @ \cup check_robots_txt(Base(w), resp).sitemap_urls,
                   !.net_raised =
                     IF resp.kind = RequestException
                     THEN @ \cup { [base |-> Base(w), site |-> "robots"] }
                     ELSE @,
                   !.probed = << >>,
                   !.hits = {}]]
  /\ UNCHANGED << domains, concurrency, stdout_utf8, mainpc, submitted, queue,
                  worker, done_order, snapshot, yielded, results >>

\* Lines 157-167 for the current path, and lines 242-254 after the last.
HeadStep(w) ==
  /\ worker[w] # 0
  /\ Frame(w).pc = "head"
  /\ LET t == worker[w]
         url == urljoin(Base(w), Catalog[Frame(w).i])
         sent == ~urlsplit_raises(Base(w))
     IN  \E resp \in IF sent THEN HeadResponses(url) ELSE { NoResponse } :
           /\ task' = [task EXCEPT
                         ![t] = check_common_locations_step(@, Base(w), resp)]
           /\ ghost' = [ghost EXCEPT ![t] =
                 IF ~sent THEN @
                 ELSE LET ok == resp.kind = "response" /\ resp.status = 200
                          probed == Append(@.probed, url)
                          hits == IF ok THEN @.hits \cup { url } ELSE @.hits
                          returned == /\ task'[t].pc # "head"
                                      /\ task'[t].exc = NoException
                      IN [@ EXCEPT
                   !.reqs = Append(@, Request("HEAD", url, head_user_agent, w)),
                   !.answered = @ \/ resp.kind = "response",
                   !.head_ok = IF ok THEN @ \cup { url } ELSE @,
                   !.probed = probed,
                   !.hits = hits,
                   !.net_raised =
                     IF resp.kind = RequestException
                     THEN @ \cup { [base |-> Base(w), site |-> "common"] }
                     ELSE @,
                   !.common_ret = IF returned
                                  THEN @ \cup task'[t].sitemap_urls ELSE @,
                   !.calls = IF returned
                             THEN Append(@, [base |-> Base(w),
                                             plain |-> task'[t].sitemap_urls,
                                             compressed |->
                                               task'[t].compressed_sitemaps,
                                             probed |-> probed,
                                             hits |-> hits])
                             ELSE @]]
  /\ UNCHANGED << domains, concurrency, stdout_utf8, mainpc, submitted, queue,
                  worker, done_order, snapshot, yielded, results >>

\* Lines 187-202 for one member of the compressed set (a set: any order).
GetStep(w) ==
  /\ worker[w] # 0
  /\ Frame(w).pc = "fetch"
  /\ LET t == worker[w]
     IN  \E url \in Frame(w).to_fetch :
         \E resp \in GetResponses(url) :
           /\ task' = [task EXCEPT
                         ![t] = fetch_compressed_sitemaps_step(@, url, resp)]
           /\ ghost' = [ghost EXCEPT ![t] =
                 [@ EXCEPT
                   !.reqs = Append(@, Request("GET", url, fetch_user_agent, w)),
                   !.answered = @ \/ resp.kind = "response",
                   !.get_ok = IF resp.kind = "response" /\ resp.status = 200
                              THEN @ \cup { url } ELSE @,
                   !.extracted =
                     IF resp.kind = "response" /\ resp.status = 200
                     THEN @ \cup { [url |-> url,
                                    urls |->
                                      extract_urls_from_compressed_sitemap(
                                        resp.body, get_compression_type(url))] }
                     ELSE @]]
  /\ UNCHANGED << domains, concurrency, stdout_utf8, mainpc, submitted, queue,
                  worker, done_order, snapshot, yielded, results >>

\* Mutant: the worker appends its result to the shared list itself.
Finish_appends(w) ==
  /\ worker[w] # 0
  /\ Frame(w).pc = "return"
  /\ task' = [task EXCEPT ![worker[w]] = finish(@)]
  /\ FutureDone(w)
  /\ results' = Append(results, finish(Frame(w)).result)
  /\ UNCHANGED << domains, concurrency, stdout_utf8, mainpc, submitted, queue,
                  snapshot, yielded, ghost >>

\* Lines 263-271: the call returns and its future finishes.
Finish(w) ==
  /\ worker[w] # 0
  /\ Frame(w).pc = "return"
  /\ task' = [task EXCEPT ![worker[w]] = finish(@)]
  /\ FutureDone(w)
  /\ UNCHANGED << domains, concurrency, stdout_utf8, mainpc, submitted, queue,
                  snapshot, yielded, results, ghost >>

\* ------------------------------------------------- process_domains: collect
Finished(t) == task[t].pc = "done"

\* Line 286: as_completed is called once every future is submitted; it notes
\* the futures already finished and waits for the others.
AsCompleted ==
  /\ mainpc = "submit"
  /\ submitted = Len(domains)
  /\ mainpc' = "collect"
  /\ snapshot' = { t \in Futures : Finished(t) }
  /\ UNCHANGED << domains, concurrency, stdout_utf8, submitted, queue, worker,
                  task, done_order, yielded, results, ghost >>

\* Mutant: as_completed yields any finished future.
NextFutures_any == { t \in Futures : Finished(t) } \ yielded

\* What as_completed may yield next: the futures it found finished, in the
\* order of a set; then the others in the order they finish.
NextFutures ==
  IF snapshot \ yielded # {}
  THEN snapshot \ yielded
  ELSE LET rest == SelectSeq(done_order, LAMBDA t : t \notin yielded)
       IN  IF rest = << >> THEN {} ELSE { Head(rest) }

\* Lines 298-303: the record built for a future whose result() raised.
error_record(domain, e) ==
  [domain |-> domain, sitemaps |-> {}, status |-> "error",
   error |-> error_msg(e)]

\* Mutant: a record is appended only for a domain not yet in the results.
collect_dedup(res, future) ==
  LET domain == domains[future]
      fresh == \A k \in 1..Len(res) : res[k].domain # domain
  IN  IF ~fresh
      THEN res
      ELSE IF task[future].raised # NoException
      THEN Append(res, error_record(domain, task[future].raised))
      ELSE Append(res, task[future].result)

\* Mutant: the exception of a future is swallowed, no record is built.
collect_swallow(res, future) ==
  IF task[future].raised # NoException
  THEN res
  ELSE Append(res, task[future].result)

\* Lines 287-304 for one yielded future.
collect(res, future) ==
  LET domain == domains[future]
  IN  IF task[future].raised # NoException
      THEN Append(res, error_record(domain, task[future].raised))
      ELSE IF PrintRaises("stdout", TRUE)
      THEN Append(Append(res, task[future].result),
                  error_record(domain, UnicodeEncodeError))
      ELSE Append(res, task[future].result)

Collect ==
  /\ mainpc = "collect"
  /\ \E future \in NextFutures :
       /\ results' = collect(results, future)
       /\ yielded' = yielded \cup { future }
       /\ ghost' = [ghost EXCEPT ![future].position = Len(results) + 1]
  /\ UNCHANGED << domains, concurrency, stdout_utf8, mainpc, submitted, queue,
                  worker, task, done_order, snapshot >>

\* Lines 281 and 309: the loop is over, the pool is shut down, results are
\* returned.
Return ==
  /\ mainpc = "collect"
  /\ yielded = Futures
  /\ mainpc' = "returned"
  /\ UNCHANGED << domains, concurrency, stdout_utf8, submitted, queue, worker,
                  task, done_order, snapshot, yielded, results, ghost >>

\* ----------------------------------------------------------- specifications
InitWith(ds, cs) ==
  /\ domains \in ds
  /\ concurrency \in cs
  /\ stdout_utf8 \in BOOLEAN
  /\ mainpc = "submit"
  /\ submitted = 0
  /\ queue = << >>
  /\ worker = [w \in 1..concurrency |-> 0]
  /\ task = [t \in 1..Len(domains) |-> NewTask(domains[t])]
  /\ ghost = [t \in 1..Len(domains) |-> NewGhost]
  /\ done_order = << >>
  /\ snapshot = {}
  /\ yielded = {}
  /\ results = << >>

\* A batch of up to MaxDomains domains.
Init == InitWith(SeqsUpTo(FleetDomains, MaxDomains), 1..MaxConcurrency)

\* One domain, any of the modelled hosts.
InitOne == InitWith({ << d >> : d \in InvestigatedDomains }, { 1 })

WorkerStep(w) ==
  \/ StartTask(w)
  \/ Begin(w)
  \/ RobotsStep(w)
  \/ HeadStep(w)
  \/ GetStep(w)
  \/ Finish(w)

MainStep == Submit \/ AsCompleted \/ Collect \/ Return

Next ==
  \/ Submit
  \/ AsCompleted
  \/ Collect
  \/ Return
  \/ \E w \in Workers : StartTask(w)
  \/ \E w \in Workers : Begin(w)
  \/ \E w \in Workers : RobotsStep(w)
  \/ \E w \in Workers : HeadStep(w)
  \/ \E w \in Workers : GetStep(w)
  \/ \E w \in Workers : Finish(w)

Spec == Init /\ [][Next]_vars

SpecOne == InitOne /\ [][Next]_vars

\* Every thread that can take a step eventually takes one.
Fairness ==
  /\ WF_vars(MainStep)
  /\ \A w \in 1..MaxConcurrency : WF_vars(w \in Workers /\ WorkerStep(w))

LiveSpec == Spec /\ Fairness

\* --------------------------------------------------------------- properties
Returned == mainpc = "returned"

\* How many records of a sequence, or domains of a list, are for domain d.
Records(res, d) == Cardinality({ k \in 1..Len(res) : res[k].domain = d })
Inputs(d) == Cardinality({ t \in Futures : domains[t] = d })

\* The call of find_sitemaps_for_domain returned a result.
ReturnedResult(t) == Finished(t) /\ task[t].raised = NoException

Running(t) == task[t].pc \in { "begin", "robots", "head", "fetch", "return" }

AllFields == { "domain", "sitemaps", "nested_urls", "status", "error" }

\* C1: process_domains returns exactly one record per input domain: as many
\* records as domains, and for every domain string as many records as the
\* string has occurrences in the input, repeated strings and the empty list
\* included.
C1_OneRecordPerInput ==
  Returned =>
    /\ Len(results) = Len(domains)
    /\ \A d \in FleetDomains : Records(results, d) = Inputs(d)

C1_Witness ==
  /\ Returned
  /\ Len(domains) = MaxDomains
  /\ domains[1] = domains[2]
  /\ results[1].status # results[Len(results)].status

\* C2: under fair scheduling every run of process_domains returns, whatever
\* the domain list and the concurrency.
C2_BatchCompletes == <>Returned

C2_Witness ==
  /\ Returned
  /\ Len(domains) = MaxDomains
  /\ concurrency < Len(domains)
  /\ \A t \in Futures : Len(ghost[t].reqs) > 0

\* C3: the sitemaps of a returned Domain Result hold every URL that
\* check_robots_txt and check_common_locations returned for the domain, on
\* either protocol variant.
C3_Union ==
  \A t \in Futures :
    ReturnedResult(t) =>
      ghost[t].robots_ret \cup ghost[t].common_ret
        \subseteq task[t].result.sitemaps

\* Both probers found URLs on the http variant, and every request of the
\* https variant then raised.
C3_Witness ==
  \E t \in Futures :
    /\ ReturnedResult(t)
    /\ ghost[t].robots_ret \ ghost[t].common_ret # {}
    /\ Len(ghost[t].calls) = 2
    /\ ghost[t].calls[1].plain # {}
    /\ \A k \in 1..Len(ghost[t].calls[2].probed) :
         HeadResponses(ghost[t].calls[2].probed[k]) = { Raised(<< >>) }

\* C4: when both robots.txt GETs and every catalog HEAD of a domain raised a
\* RequestException, the result is success with no sitemaps, no nested URLs
\* and no error; and a result is an error only when no request was made.
C4_NetworkMissesAreNotErrors ==
  \A t \in Futures :
    ReturnedResult(t) =>
      /\ ( /\ ~ghost[t].answered
           /\ Len(ghost[t].reqs) = 2 * (1 + Len(Catalog)) )
         => task[t].result = Result(domains[t], {}, {}, "success", None)
      /\ task[t].result.status = "error" => ghost[t].reqs = << >>

C4_Witness ==
  \E t \in Futures :
    /\ ReturnedResult(t)
    /\ ~ghost[t].answered
    /\ Len(ghost[t].reqs) = 2 * (1 + Len(Catalog))
    /\ \E k \in 1..Len(results) : results[k] = task[t].result

\* C5: while results are collected and when they are returned, every yielded
\* future whose task raised has an error record for its domain, and the
\* record of every yielded future whose task returned is in the results.
C5_EscapedExceptionBecomesRecord ==
  /\ \A d \in FleetDomains :
       Cardinality({ t \in yielded : domains[t] = d })
         = Records(results, d)
  /\ \A t \in yielded :
       IF task[t].raised # NoException
       THEN \E k \in 1..Len(results) :
              /\ results[k].domain = domains[t]
              /\ results[k].status = "error"
              /\ results[k].error = "Processing error"
       ELSE \E k \in 1..Len(results) : results[k] = task[t].result
  /\ Returned => yielded = Futures

C5_Witness ==
  /\ Returned
  /\ Len(domains) = MaxDomains
  /\ \A t \in Futures : task[t].raised # NoException
  /\ domains[1] # domains[2]

\* C6 (as claimed): every record process_domains returns carries the five
\* fields domain, sitemaps, nested_urls, status and error.
C6_AllFiveFields ==
  \A k \in 1..Len(results) : DOMAIN results[k] = AllFields

\* C7 (as claimed): every URL in the sitemaps of a result is a URL whose
\* existence check (a HEAD of this investigation) returned 200.
C7_EverySitemapChecked ==
  \A t \in Futures :
    ReturnedResult(t) => task[t].result.sitemaps \subseteq ghost[t].head_ok

\* C7 (amended): every URL in the sitemaps of a result is a catalog URL whose
\* HEAD returned 200 or a URL declared by a Sitemap line of a robots.txt
\* whose GET returned 200.
C7_CheckedOrDeclared ==
  \A t \in Futures :
    ReturnedResult(t) =>
      task[t].result.sitemaps
        \subseteq ghost[t].head_ok \cup ghost[t].robots_declared

C7_Witness ==
  \E t \in Futures :
    /\ ReturnedResult(t)
    /\ task[t].result.sitemaps \ ghost[t].head_ok # {}
    /\ task[t].result.sitemaps \ ghost[t].robots_declared # {}
    /\ \E r \in { ghost[t].reqs[k] : k \in 1..Len(ghost[t].reqs) } :
         r.method = "HEAD" /\ r.url \notin task[t].result.sitemaps

\* C8 (as claimed): every request of an investigation carries the fixed
\* User-Agent header.
C8_EveryRequestCarriesUA ==
  \A t \in Futures :
    \A k \in 1..Len(ghost[t].reqs) : ghost[t].reqs[k].ua = SitemapFinderUA

\* C9: at most `concurrency' investigations are in progress, and every
\* request of an investigation is made by the worker that started it, which
\* runs nothing else until the investigation is over.
C9_BoundedPool ==
  /\ Cardinality({ t \in Futures : Running(t) }) <= concurrency
  /\ \A t \in Futures :
       /\ \A k \in 1..Len(ghost[t].reqs) :
            ghost[t].reqs[k].worker = ghost[t].worker
       /\ Running(t) =>
            ghost[t].worker \in Workers /\ worker[ghost[t].worker] = t

C9_Witness ==
  /\ concurrency = MaxConcurrency
  /\ Cardinality({ t \in Futures : Running(t) }) = concurrency
  /\ queue # << >>
  /\ \A t \in Futures : Running(t) => task[t].pc = "fetch"

\* C10: every call of check_common_locations that returns has probed the
\* whole catalog, each path once and in catalog order, and returns exactly
\* the URLs whose HEAD returned 200.
C10_WholeCatalogProbed ==
  \A t \in Futures :
    \A c \in 1..Len(ghost[t].calls) :
      LET call == ghost[t].calls[c]
      IN  /\ call.probed
               = [i \in 1..Len(Catalog) |-> urljoin(call.base, Catalog[i])]
          /\ call.plain = call.hits

\* A call in which a HEAD that can only time out came before a hit.
C10_Witness ==
  \E t \in Futures :
    \E c \in 1..Len(ghost[t].calls) :
      LET call == ghost[t].calls[c]
      IN  \E i, j \in 1..Len(call.probed) :
            /\ i < j
            /\ HeadResponses(call.probed[i]) = { Raised(<< >>) }
            /\ call.probed[j] \in call.hits

\* The protocol variants in which a request of the given site of task t
\* raised a RequestException.
RaisedIn(t, site) ==
  { r.base : r \in { x \in ghost[t].net_raised : x.site = site } }

\* The calls of check_common_locations of task t that returned, for base b.
CallsFor(t, b) ==
  { c \in 1..Len(ghost[t].calls) : ghost[t].calls[c].base = b }

\* C11: when the GET of robots.txt of a protocol variant times out or fails
\* on the network, the catalog is still probed for that same variant: the
\* probing is under way right after the failure, or has gone through the
\* whole catalog.
C11_RobotsFailureKeepsCatalog ==
  \A t \in Futures : \A b \in RaisedIn(t, "robots") :
    \/ /\ task[t].pc = "head"
       /\ normalize_domain(task[t].domain)[task[t].v] = b
    \/ \E c \in CallsFor(t, b) :
         Len(ghost[t].calls[c].probed) = Len(Catalog)

\* robots.txt failed for a variant whose catalog probing then found a sitemap.
C11_Witness ==
  \E t \in Futures :
    /\ ReturnedResult(t)
    /\ \E b \in RaisedIn(t, "robots") : \E c \in CallsFor(t, b) :
         /\ ghost[t].calls[c].hits # {}
         /\ ghost[t].calls[c].hits \subseteq task[t].result.sitemaps

\* The protocol loop of task t is over and nothing escaped it.
PastLoop(t) ==
  task[t].pc \in { "fetch", "return", "done" } /\ task[t].exc = NoException

\* Task t is inside the iteration of the protocol loop for base b.
InIteration(t, b) ==
  /\ task[t].pc \in { "robots", "head" }
  /\ normalize_domain(task[t].domain)[task[t].v] = b

\* The whole catalog has been probed for base b.
ProbedWhole(t, b) ==
  \E c \in CallsFor(t, b) : Len(ghost[t].calls[c].probed) = Len(Catalog)

\* The requests of the extraction step of task t.
Fetches(t) ==
  { k \in 1..Len(ghost[t].reqs) :
      /\ ghost[t].reqs[k].method = "GET"
      /\ ghost[t].reqs[k].url.path # RobotsPath.text }

\* What follows a network exception raised while probing: every variant is
\* still probed (robots.txt and catalog), the URLs found stay, extraction
\* runs and the call returns a success record.
AfterNetworkException(t) ==
  ghost[t].net_raised # {} =>
    /\ task[t].exc = NoException
    /\ ghost[t].robots_ret \cup ghost[t].common_ret
         \subseteq task[t].all_sitemap_urls
    /\ PastLoop(t) =>
         \A k \in 1..Len(normalize_domain(task[t].domain)) :
           LET b == normalize_domain(task[t].domain)[k]
           IN  /\ \E r \in 1..Len(ghost[t].reqs) :
                    ghost[t].reqs[r].url = urljoin(b, RobotsPath)
               /\ ProbedWhole(t, b)
    /\ Finished(t) =>
         /\ task[t].raised = NoException
         /\ task[t].result.status = "success"
         /\ task[t].result.sitemaps
              = ghost[t].robots_ret \cup ghost[t].common_ret
         /\ { ghost[t].reqs[k].url : k \in Fetches(t) }
              = task[t].all_compressed_sitemaps

\* C12 as stated: a network exception raised while probing a variant ends
\* that variant's iteration, and only that: the next variant is still
\* probed, extraction is reached, the call returns and the URLs found so far
\* stay in the result.
C12_ExceptionEndsVariant ==
  \A t \in Futures :
    /\ AfterNetworkException(t)
    /\ \A x \in ghost[t].net_raised : ~InIteration(t, x.base)

\* C12, amended: a network exception raised while probing a variant ends not
\* even that variant's iteration: the probing of the variant goes on through
\* the whole catalog, the next variant is still probed, extraction is
\* reached, the call returns and the URLs found so far stay in the result.
C12_ExceptionEndsNothing ==
  \A t \in Futures :
    /\ AfterNetworkException(t)
    /\ \A x \in ghost[t].net_raised :
         InIteration(t, x.base) \/ ProbedWhole(t, x.base)

\* Requests failed in both variants, robots.txt in one and a catalog path in
\* the other; the call found sitemaps in a failing variant, extracted a
\* compressed one and returned.
C12_Witness ==
  \E t \in Futures :
    /\ ReturnedResult(t)
    /\ Len(normalize_domain(task[t].domain)) = 2
    /\ \A k \in 1..2 :
         normalize_domain(task[t].domain)[k]
           \in RaisedIn(t, "robots") \cup RaisedIn(t, "common")
    /\ RaisedIn(t, "robots") # {} /\ RaisedIn(t, "common") # {}
    /\ \E b \in RaisedIn(t, "common") : \E c \in CallsFor(t, b) :
         ghost[t].calls[c].hits # {}
    /\ task[t].result.nested_urls # {}

\* fetch_compressed_sitemaps was called by task t and has returned.
Fetched(t) ==
  /\ task[t].pc \in { "return", "done" }
  /\ task[t].exc = NoException
  /\ task[t].all_compressed_sitemaps # {}

\* C13: fetch_compressed_sitemaps sends one GET, and only one, for every
\* member of the set it is given, whatever the other members came back with;
\* a member whose GET failed, was not answered with 200 or could not be
\* decoded adds nothing, and the set returned is the union of the URLs
\* extracted from the members whose GET returned 200.
C13_EveryMemberFetchedOnce ==
  \A t \in Futures :
    /\ task[t].pc = "fetch" =>
         /\ { ghost[t].reqs[k].url : k \in Fetches(t) }
              = task[t].all_compressed_sitemaps \ task[t].to_fetch
         /\ Cardinality(Fetches(t))
              = Cardinality(task[t].all_compressed_sitemaps \ task[t].to_fetch)
    /\ Fetched(t) =>
         /\ { ghost[t].reqs[k].url : k \in Fetches(t) }
              = task[t].all_compressed_sitemaps
         /\ Cardinality(Fetches(t))
              = Cardinality(task[t].all_compressed_sitemaps)
         /\ { e.url : e \in ghost[t].extracted } = ghost[t].get_ok
         /\ task[t].result.nested_urls
              = UNION { e.urls : e \in ghost[t].extracted }

\* Of several compressed sitemaps one could not be fetched, one was fetched
\* and could not be decoded, and the URLs of another were returned.
C13_Witness ==
  \E t \in Futures :
    /\ ReturnedResult(t)
    /\ Fetched(t)
    /\ task[t].all_compressed_sitemaps \ ghost[t].get_ok # {}
    /\ \E e \in ghost[t].extracted : e.urls = {}
    /\ \E e \in ghost[t].extracted :
         e.urls # {} /\ e.urls = task[t].result.nested_urls

\* C14: nested_urls is non-empty only if a compressed sitemap was found and
\* the GET of at least one returned 200; when none was found no GET of a
\* compressed sitemap is sent and nested_urls is empty.
C14_NestedOnlyFromFetchedMarkers ==
  \A t \in Futures :
    /\ task[t].result.nested_urls # {} =>
         /\ task[t].all_compressed_sitemaps # {}
         /\ ghost[t].get_ok \cap task[t].all_compressed_sitemaps # {}
         /\ \E u \in task[t].all_sitemap_urls : is_compressed_format(u)
    /\ task[t].all_compressed_sitemaps = {} =>
         /\ Fetches(t) = {}
         /\ task[t].result.nested_urls = {}
    /\ ghost[t].get_ok = {} => task[t].result.nested_urls = {}

\* Two compressed sitemaps were found; the GET of one returned 200 and gave
\* the nested URLs, the GET of the other did not return 200.
C14_Witness ==
  \E t \in Futures :
    /\ ReturnedResult(t)
    /\ Cardinality(task[t].all_compressed_sitemaps) = 2
    /\ Cardinality(ghost[t].get_ok) = 1
    /\ task[t].result.nested_urls # {}
    /\ task[t].all_compressed_sitemaps \subseteq task[t].result.sitemaps

\* C15: the set handed to extraction is the set of the discovered sitemap
\* URLs whose suffix is .gz or .zip, a URL declared in robots.txt included:
\* each of them is fetched for extraction, and each URL handed to extraction
\* is in sitemaps.
C15_EveryCompressedUrlExtracted ==
  \A t \in Futures :
    ReturnedResult(t) /\ task[t].result.status = "success" =>
      /\ task[t].all_compressed_sitemaps
           = { u \in task[t].result.sitemaps : is_compressed_format(u) }
      /\ { ghost[t].reqs[k].url : k \in Fetches(t) }
           = { u \in task[t].result.sitemaps : is_compressed_format(u) }

\* The place of a request in an investigation: robots.txt over http, the
\* catalog over http, robots.txt over https, the catalog over https, then
\* the compressed sitemaps.
Phase(r) ==
  IF r.method = "HEAD"
  THEN IF r.url.scheme = "http" THEN 2 ELSE 4
  ELSE IF r.url.path = RobotsPath.text
  THEN IF r.url.scheme = "http" THEN 1 ELSE 3
  ELSE 5

\* C16: the requests of one investigation go out in a fixed order: those of
\* the http variant before those of the https variant, within a variant the
\* GET of robots.txt before every catalog HEAD, and no GET of a compressed
\* sitemap before the probing of both variants is over; the investigation
\* returns only once extraction is over.
C16_FixedOrder ==
  \A t \in Futures :
    /\ \A i, j \in 1..Len(ghost[t].reqs) :
         i < j => Phase(ghost[t].reqs[i]) <= Phase(ghost[t].reqs[j])
    /\ Fetches(t) # {} =>
         /\ PastLoop(t)
         /\ \A k \in 1..Len(normalize_domain(task[t].domain)) :
              ProbedWhole(t, normalize_domain(task[t].domain)[k])
    /\ Finished(t) /\ task[t].exc = NoException /\ task[t].raised = NoException =>
         /\ task[t].to_fetch = {}
         /\ { ghost[t].reqs[k].url : k \in Fetches(t) }
              = task[t].all_compressed_sitemaps

\* An investigation that sent requests of all five kinds and returned.
C16_Witness ==
  \E t \in Futures :
    /\ ReturnedResult(t)
    /\ { Phase(ghost[t].reqs[k]) : k \in 1..Len(ghost[t].reqs) } = 1..5
    /\ Cardinality(Fetches(t)) >= 2

\* The record of future a is in the results before the record of future b.
Precedes(a, b) ==
  /\ ghost[a].position # 0
  /\ ghost[b].position # 0
  /\ ghost[a].position < ghost[b].position

\* Pairs of futures whose records are both in the results, the first having
\* finished before the second.
FinishedInOrder ==
  { p \in (1..Len(done_order)) \X (1..Len(done_order)) :
      /\ p[1] < p[2]
      /\ done_order[p[1]] \in yielded
      /\ done_order[p[2]] \in yielded }

\* C17 as stated: the records are in the order in which the investigations
\* completed: if the investigation of A completed before that of B, the
\* record of A precedes the record of B.
C17_CompletionOrder ==
  \A p \in FinishedInOrder : Precedes(done_order[p[1]], done_order[p[2]])

\* C17, amended: if the investigation of A completed before that of B, and
\* that of B completed after as_completed was called, the record of A
\* precedes the record of B; the investigations complete by then are
\* recorded first.
C17_CompletionOrderOnceCollecting ==
  /\ \A p \in FinishedInOrder :
       done_order[p[2]] \notin snapshot =>
         Precedes(done_order[p[1]], done_order[p[2]])
  /\ \A a \in snapshot \cap yielded : \A b \in yielded \ snapshot :
       Precedes(a, b)

\* A batch returned with a record of an investigation complete before
\* as_completed was called, followed by those of two that completed later.
C17_Witness ==
  /\ Returned
  /\ snapshot # {}
  /\ \E p \in FinishedInOrder :
       /\ done_order[p[1]] \notin snapshot
       /\ done_order[p[2]] \notin snapshot
       /\ domains[done_order[p[1]]] # domains[done_order[p[2]]]
       /\ Precedes(done_order[p[1]], done_order[p[2]])

\* A step of the thread that runs process_domains appended, for one future
\* whose call is over, the records of its domain to the results.
AppendedByCollector ==
  /\ mainpc = "collect"
  /\ worker' = worker
  /\ task' = task
  /\ queue' = queue
  /\ \E future \in Futures \ yielded :
       /\ Finished(future)
       /\ yielded' = yielded \cup { future }
       /\ Len(results') > Len(results)
       /\ SubSeq(results', 1, Len(results)) = results
       /\ \A k \in (Len(results) + 1)..Len(results') :
            results'[k].domain = domains[future]

\* C18: the results list is written by the thread that collects, and by no
\* worker: every change of it is an append made by a step of the collecting
\* loop, in which no worker moves, of the record of a domain whose
\* investigation is over.
C18_OnlyCollectorWrites ==
  [][results' # results => AppendedByCollector]_vars

\* A record is in the results while another investigation is still running.
C18_Witness ==
  /\ results # << >>
  /\ \E t \in Futures : Running(t) /\ ghost[t].reqs # << >>
  /\ \A k \in 1..Len(results) :
       \E future \in yielded :
         Finished(future) /\ domains[future] = results[k].domain

\* C19: in every record returned, status is 'success' exactly when error is
\* None, and a record of status 'error' has 'Connection failed' or
\* 'Processing error' as its error and no sitemaps.
C19_StatusMatchesError ==
  \A k \in 1..Len(results) :
    /\ results[k].status \in { "success", "error" }
    /\ results[k].status = "success" <=> results[k].error = None
    /\ results[k].status = "error" =>
         /\ results[k].error \in { "Connection failed", "Processing error" }
         /\ results[k].sitemaps = {}

\* A batch returned with a success record that has sitemaps and an error
\* record built by find_sitemaps_for_domain.
C19_Witness ==
  /\ Returned
  /\ \E k \in 1..Len(results) :
       results[k].status = "success" /\ results[k].sitemaps # {}
  /\ \E k \in 1..Len(results) :
       /\ results[k].status = "error"
       /\ "nested_urls" \in DOMAIN results[k]
       /\ results[k].error = "Processing error"


====
